---- MODULE Spec2Model ----
(***************************************************************************)
(* A model of the pbrsdk client library: the authentication store          *)
(* (src/src/auth.rs), the record service that reads and writes it          *)
(* (src/src/services/record_service.rs) and the full-list pagination       *)
(* loop.  The backend is the environment: every response it can send       *)
(* (a transport failure, an empty body, a JSON document of any shape)      *)
(* is an input of the action that receives it.                             *)
(*                                                                         *)
(* Values.  Option<T> is a sequence of length 0 (None) or 1 (Some).        *)
(* A JSON object is a function from its keys to their values, so that      *)
(* "the key is absent" is "the key is not in the DOMAIN"; decoding a       *)
(* body against a Rust struct succeeds iff the struct's required keys      *)
(* are present (serde ignores the keys it does not know).                  *)
(***************************************************************************)
EXTENDS Integers, Sequences, FiniteSets, TLC

VARIABLES
    heap,         \* the Mutex<AuthStore> allocations, by address: for each
                  \* its data and whether a panic has poisoned it
    services,     \* the per-collection services obtained from the client
    now,          \* SystemTime::now() in whole seconds since the epoch
    backend,      \* the backend's collection: its size and its page cap
    call,         \* the get_full_list call in progress (its locals)
    last,         \* the last finished operation: its input and its result
    tasks         \* the calls of concurrent tasks: for each task its position
                  \* in the operation it runs, its locals, and whether it
                  \* holds the MutexGuard of Auth State

vars == <<heap, services, now, backend, call, last, tasks>>

-----------------------------------------------------------------------------
(* Bounds of the model *)

MaxNow == 1        \* the clock runs over 0..MaxNow
MaxExp == 1        \* tokens carry exp in 1..MaxExp
MaxN == 5          \* a backend collection holds 0..MaxN records
MaxCap == 3        \* the backend caps a page at 1..MaxCap items
MaxFilter == 1     \* a filter "id > k" has k in 0..MaxFilter

(* Program constants *)

FullListPerPage == 1000       \* get_full_list asks for pages of 1000
StatusCodeMin == 100          \* StatusCode::from_u16 accepts 100..=999
StatusCodeMax == 999
NOT_FOUND == 404              \* StatusCode::NOT_FOUND
SuperusersCollectionId == "pbc_3142635823"
SuperusersCollectionName == "_superusers"

-----------------------------------------------------------------------------
(* Option<T> *)

None == <<>>
Some(v) == <<v>>
IsSome(o) == o # None
IsNone(o) == o = None
Unwrap(o) == o[1]

Min(a, b) == IF a < b THEN a ELSE b

-----------------------------------------------------------------------------
(* JSON documents the backend can send *)

EmptyObj == [k \in {} |-> 0]

HasKeys(obj, keys) == keys \subseteq DOMAIN obj

RecordIds == {"u1", "u2"}
Emails == {"a@x", "b@x"}

\* The auth records the backend holds: (record id, collection).  The
\* superuser and the first user share their record id.
AuthIdentities ==
    { [id |-> "u1", collectionId |-> "pbc_users", collectionName |-> "users"],
      [id |-> "u2", collectionId |-> "pbc_users", collectionName |-> "users"],
      [id |-> "u1", collectionId |-> SuperusersCollectionId,
       collectionName |-> SuperusersCollectionName] }

\* The names a service can be bound to (PocketBase::collection(name_or_id)).
ServiceNames == {"users", "pbc_users", "articles"}

\* The caller's record type E of get_one, create and update:
\* "slim" declares only `id`, "full" is DefaultAuthRecord itself.
RecordTypes == {"slim", "full"}

\* A record as JSON, by how much of it is there: nothing, the id alone, the
\* three system fields, the system fields and email (email stands for the
\* domain columns DefaultAuthRecord requires).
RecordObjs ==
    {EmptyObj}
    \cup { [id |-> x] : x \in RecordIds }
    \cup AuthIdentities
    \cup { i @@ [email |-> e] : i \in AuthIdentities, e \in Emails }

\* The {message, status} part of a body: absent, a valid HTTP status, a
\* status StatusCode::from_u16 rejects.
ErrorParts ==
    { EmptyObj,
      [message |-> "Failed.", status |-> 400],
      [message |-> "Failed.", status |-> 99] }

ErrorBodies == ErrorParts \ {EmptyObj}

-----------------------------------------------------------------------------
(* Bearer tokens: a token is the sequence of its '.'-separated segments;   *)
(* a segment is what base64url + UTF-8 + JSON decoding make of it, and     *)
(* whether it holds a control character (which a header value cannot).     *)

OpaqueSegment == [b64 |-> TRUE, utf8 |-> TRUE, json |-> EmptyObj, ctl |-> FALSE]

PayloadSegment(collId, exp) ==
    [b64 |-> TRUE, utf8 |-> TRUE, ctl |-> FALSE,
     json |-> [type |-> "auth", collectionId |-> collId,
               refreshable |-> TRUE, id |-> "u1", exp |-> exp]]

TokenOf(collId, exp) == <<OpaqueSegment, PayloadSegment(collId, exp), OpaqueSegment>>

\* A token without any '.', hence without a payload segment.
MalformedToken == <<OpaqueSegment>>

\* A token string with a line feed in it (which is not base64url either).
ControlToken == <<[b64 |-> FALSE, utf8 |-> TRUE, json |-> EmptyObj, ctl |-> TRUE]>>

\* A well-formed token of the superusers collection that is not an auth
\* token (a file token).
FileToken ==
    <<OpaqueSegment,
      [b64 |-> TRUE, utf8 |-> TRUE, ctl |-> FALSE,
       json |-> [type |-> "file", collectionId |-> SuperusersCollectionId,
                 refreshable |-> FALSE, id |-> "u1", exp |-> MaxExp]],
      OpaqueSegment>>

Tokens ==
    { TokenOf(c, e) : c \in {"pbc_users", SuperusersCollectionId}, e \in 1..MaxExp }
    \cup {MalformedToken, FileToken, ControlToken}

JwtPayloadKeys == {"type", "collectionId", "refreshable", "id", "exp"}

\* auth.rs get_token_payload: Ok(payload) as Some, Err(ApiError::Jwt) as None.
get_token_payload(token) ==
    IF Len(token) < 2 THEN None
    ELSE LET seg == token[2] IN
         IF ~seg.b64 THEN None
         ELSE IF ~seg.utf8 THEN None
         ELSE IF ~HasKeys(seg.json, JwtPayloadKeys) THEN None
         ELSE IF seg.json.exp < 0 THEN None      \* exp: u64
         ELSE Some([token_type |-> seg.json.type,
                    collection_id |-> seg.json.collectionId,
                    refreshable |-> seg.json.refreshable,
                    id |-> seg.json.id,
                    exp |-> seg.json.exp])

\* is_token_expired that still accepts a token in the second of its exp.
is_token_expired_inclusive(token, timestamp) ==
    LET payload == get_token_payload(token) IN
    IF IsSome(payload) /\ Unwrap(payload).exp >= timestamp THEN FALSE ELSE TRUE

\* auth.rs is_token_expired, reading the clock as `timestamp`.
is_token_expired(token, timestamp) ==
    LET payload == get_token_payload(token) IN
    IF IsSome(payload) /\ Unwrap(payload).exp > timestamp THEN FALSE ELSE TRUE

\* The token strings the two functions above can be given: no '.', or a
\* second segment that is not base64url, not UTF-8, not the JSON of a
\* JwtPayload (no key at all, no exp, a negative exp), or a JwtPayload.
PayloadJsons ==
    {EmptyObj}
    \cup { [type |-> t, collectionId |-> c, refreshable |-> TRUE, id |-> "u1"] :
             t \in {"auth", "file"}, c \in {"pbc_users"} }
    \cup { [type |-> t, collectionId |-> c, refreshable |-> TRUE, id |-> "u1",
            exp |-> e] :
             t \in {"auth", "file"}, c \in {"pbc_users", SuperusersCollectionId},
             e \in (0 - 1)..MaxExp }

PayloadSegments ==
    { [b64 |-> FALSE, utf8 |-> FALSE, json |-> EmptyObj, ctl |-> FALSE],
      [b64 |-> TRUE, utf8 |-> FALSE, json |-> EmptyObj, ctl |-> FALSE] }
    \cup { [b64 |-> TRUE, utf8 |-> TRUE, json |-> j, ctl |-> FALSE] : j \in PayloadJsons }

AnyTokens ==
    {MalformedToken}
    \cup { <<OpaqueSegment, p>> : p \in PayloadSegments }
    \cup { <<OpaqueSegment, p, OpaqueSegment>> : p \in PayloadSegments }

-----------------------------------------------------------------------------
(* AuthStore *)

AuthStoreDefault ==
    [token |-> None, record |-> None, collection_id |-> None,
     collection_name |-> None, record_id |-> None]

set_token(store, token) == [store EXCEPT !.token = Some(token)]

\* set_record that keeps the record Auth State already has.
set_record_once(store, record) ==
    IF IsSome(store.record) THEN store ELSE [store EXCEPT !.record = Some(record)]

set_record(store, record) == [store EXCEPT !.record = Some(record)]

\* set_collection forgetting the id of the collection.
set_collection_name_only(store, collection_name, collection_id) ==
    [store EXCEPT !.collection_name = Some(collection_name)]

set_collection(store, collection_name, collection_id) ==
    [store EXCEPT !.collection_name = Some(collection_name),
                  !.collection_id = Some(collection_id)]

\* The setter of record_id (the field update reads and the tests assert).
set_record_id(store, id) == [store EXCEPT !.record_id = Some(id)]

\* is_some looking at the token alone.
is_some_token_only(store) == IsSome(store.token)

is_some(store) ==
    /\ IsSome(store.token)
    /\ IsSome(store.record)
    /\ IsSome(store.collection_id)
    /\ IsSome(store.collection_name)

\* is_valid written as "not (populated and expired)".
is_valid_unless_expired(store, timestamp) ==
    ~(is_some(store) /\ is_token_expired(Unwrap(store.token), timestamp))

is_valid(store, timestamp) ==
    is_some(store) /\ ~is_token_expired(Unwrap(store.token), timestamp)

\* is_superuser going by the name of the collection alone.
is_superuser_by_name(store) ==
    IF ~is_some(store) THEN FALSE
    ELSE LET payload == get_token_payload(Unwrap(store.token)) IN
         IF IsSome(payload)
         THEN /\ Unwrap(payload).token_type = "auth"
              /\ Unwrap(store.collection_name) = SuperusersCollectionName
         ELSE FALSE

is_superuser(store) ==
    IF ~is_some(store) THEN FALSE
    ELSE LET payload == get_token_payload(Unwrap(store.token)) IN
         IF IsSome(payload)
         THEN /\ Unwrap(payload).token_type = "auth"
              /\ \/ Unwrap(store.collection_name) = SuperusersCollectionName
                 \/ Unwrap(payload).collection_id = SuperusersCollectionId
         ELSE FALSE

-----------------------------------------------------------------------------
(* Responses and serde decoding *)

\* The text of a response body: the empty string, or a JSON object.
EmptyBody == [text |-> "empty", json |-> EmptyObj]
JsonBody(obj) == [text |-> "json", json |-> obj]

\* send().await?.text().await? either fails in the transport or yields text.
TransportFailure == [transport |-> TRUE, body |-> EmptyBody]
Answer(body) == [transport |-> FALSE, body |-> body]

\* struct RecordIdOnly { id }
DecodeRecordIdOnly(obj) ==
    IF HasKeys(obj, {"id"}) THEN Some([id |-> obj.id]) ELSE None

\* DefaultAuthRecord (T): the three system fields of #[base_system_fields]
\* and the required domain columns.
DecodeDefaultAuthRecord(obj) ==
    IF HasKeys(obj, {"id", "collectionId", "collectionName", "email"})
    THEN Some([id |-> obj.id, collection_id |-> obj.collectionId,
               collection_name |-> obj.collectionName, email |-> obj.email])
    ELSE None

\* DefaultAuthResponseRecord: the minimal shape of the record of an auth
\* response, with the id that auth_with_password reads from it.
DecodeDefaultAuthResponseRecord(obj) ==
    IF HasKeys(obj, {"id", "collectionId", "collectionName"})
    THEN Some([id |-> obj.id, collection_id |-> obj.collectionId,
               collection_name |-> obj.collectionName])
    ELSE None

\* The caller's record type E.
DecodeRecord(type, obj) ==
    IF type = "full" THEN DecodeDefaultAuthRecord(obj)
    ELSE DecodeRecordIdOnly(obj)

DecodeSlim(obj) == DecodeRecord("slim", obj)
DecodeFull(obj) == DecodeRecord("full", obj)

\* AuthResponse<X> { record: X, token }
DecodeAuthResponse(x, obj) ==
    IF ~HasKeys(obj, {"record", "token"}) THEN None
    ELSE LET record == IF x = "DefaultAuthRecord"
                       THEN DecodeDefaultAuthRecord(obj.record)
                       ELSE DecodeDefaultAuthResponseRecord(obj.record) IN
         IF IsNone(record) THEN None
         ELSE Some([record |-> Unwrap(record), token |-> obj.token])

DecodeAuthResponseMinimal(obj) ==
    DecodeAuthResponse("DefaultAuthResponseRecord", obj)

DecodeAuthResponseFull(obj) ==
    DecodeAuthResponse("DefaultAuthRecord", obj)

\* ResponseError { message, status: u16 }
DecodeResponseError(obj) ==
    IF HasKeys(obj, {"message", "status"}) /\ obj.status \in 0..65535
    THEN Some([message |-> obj.message, status |-> obj.status])
    ELSE None

\* ListResponse<E> with E the slim record type.
DecodeListResponse(obj) ==
    IF /\ HasKeys(obj, {"items", "page", "perPage", "totalItems", "totalPages"})
       /\ \A i \in 1..Len(obj.items) : IsSome(DecodeSlim(obj.items[i]))
    THEN Some([items |-> [i \in 1..Len(obj.items) |-> Unwrap(DecodeSlim(obj.items[i]))],
               page |-> obj.page, per_page |-> obj.perPage,
               total_items |-> obj.totalItems, total_pages |-> obj.totalPages])
    ELSE None

\* serde_json::from_str::<X>(body): the text must be JSON and the object
\* must decode as the type X the caller names.
from_str(X, body) ==
    IF body.text # "json" THEN None
    ELSE CASE X = "RecordIdOnly" -> DecodeRecordIdOnly(body.json)
           [] X = "DefaultAuthRecord" -> DecodeDefaultAuthRecord(body.json)
           [] X = "slim" -> DecodeSlim(body.json)
           [] X = "full" -> DecodeFull(body.json)
           [] X = "AuthResponseMinimal" -> DecodeAuthResponseMinimal(body.json)
           [] X = "AuthResponseFull" -> DecodeAuthResponseFull(body.json)
           [] X = "ResponseError" -> DecodeResponseError(body.json)
           [] X = "ListResponse" -> DecodeListResponse(body.json)

(* Results: Ok(v), Err(ApiError::Http), Err(ApiError::Reqwest), and the   *)
(* panic of an unwrap() on None/Err, which aborts the operation.          *)

Ok(v) == [kind |-> "ok", val |-> v]
ErrHttp(status, message) == [kind |-> "http", status |-> status, message |-> message]
ErrReqwest == [kind |-> "reqwest"]
Panic == [kind |-> "panic"]

\* StatusCode::from_u16
ValidStatus(status) == status >= StatusCodeMin /\ status <= StatusCodeMax

\* handle_response_body::<X>; `response` is from_str::<X>(body).
handle_response_body(response, body) ==
    IF IsSome(response) THEN Ok(Unwrap(response))
    ELSE LET error == from_str("ResponseError", body) IN
         IF IsNone(error) THEN Panic
         ELSE IF ~ValidStatus(Unwrap(error).status) THEN Panic
         ELSE ErrHttp(Unwrap(error).status, Unwrap(error).message)

\* HeaderValue::from_str, which format!(..).parse() calls: a header value
\* holds no control character.
HeaderValueOk(token) == \A i \in 1..Len(token) : ~token[i].ctl

\* The header map with Authorization: Bearer <token>.
Bearer(token) == [Authorization |-> <<"Bearer", token>>]

\* get_auth_headers that sends the token of a complete session only.
get_auth_headers_when_populated(store, psn) ==
    IF psn THEN Panic
    ELSE IF is_some(store)
         THEN IF HeaderValueOk(Unwrap(store.token))
              THEN Ok(Bearer(Unwrap(store.token)))
              ELSE Panic
         ELSE Ok(EmptyObj)

\* get_auth_headers: Ok(the header map), or the panic of one of its
\* unwraps: lock() on a poisoned Mutex is an Err (line 61), and so is the
\* parse of a token that no header value can hold (line 64).
get_auth_headers(store, psn) ==
    IF psn THEN Panic
    ELSE IF IsSome(store.token)
         THEN IF HeaderValueOk(Unwrap(store.token))
              THEN Ok(Bearer(Unwrap(store.token)))
              ELSE Panic
         ELSE Ok(EmptyObj)

-----------------------------------------------------------------------------
(* The operations of RecordService, as functions of the Auth State, the   *)
(* poison flag of its Mutex and the response; each yields the new Auth    *)
(* State, the new poison flag and the value the caller gets.              *)

Out(store, psn, ret) == [store |-> store, poisoned |-> psn, ret |-> ret]

\* A request that reads the token for its headers and decodes the answer
\* as X: get_list, get_one, create.  A panic of get_auth_headers happens
\* with its guard alive (or on a Mutex already poisoned): the Mutex is
\* poisoned from then on.
SimpleRequest(store, psn, resp, X) ==
    IF get_auth_headers(store, psn).kind = "panic" THEN Out(store, TRUE, Panic)
    ELSE IF resp.transport THEN Out(store, psn, ErrReqwest)
    ELSE Out(store, psn, handle_response_body(from_str(X, resp.body), resp.body))

get_list(store, psn, resp) == SimpleRequest(store, psn, resp, "ListResponse")

get_one(store, psn, type, resp) ==
    IF type = "full" THEN SimpleRequest(store, psn, resp, "full")
    ELSE SimpleRequest(store, psn, resp, "slim")

create(store, psn, type, resp) ==
    IF type = "full" THEN SimpleRequest(store, psn, resp, "full")
    ELSE SimpleRequest(store, psn, resp, "slim")

\* delete that drops the session when the backend reports an error.
delete_resetting(store, psn, resp) ==
    IF get_auth_headers(store, psn).kind = "panic" THEN Out(store, TRUE, Panic)
    ELSE IF resp.transport THEN Out(store, psn, ErrReqwest)
    ELSE IF resp.body.text = "empty" THEN Out(store, psn, Ok("unit"))
    ELSE LET error == from_str("ResponseError", resp.body) IN
         IF IsSome(error)
         THEN IF ValidStatus(Unwrap(error).status)
              THEN Out(AuthStoreDefault, psn,
                       ErrHttp(Unwrap(error).status, Unwrap(error).message))
              ELSE Out(store, psn, Panic)
         ELSE Out(store, psn, Ok("unit"))

delete(store, psn, resp) ==
    IF get_auth_headers(store, psn).kind = "panic" THEN Out(store, TRUE, Panic)
    ELSE IF resp.transport THEN Out(store, psn, ErrReqwest)
    ELSE IF resp.body.text = "empty" THEN Out(store, psn, Ok("unit"))
    ELSE LET error == from_str("ResponseError", resp.body) IN
         IF IsSome(error)
         THEN IF ValidStatus(Unwrap(error).status)
              THEN Out(store, psn, ErrHttp(Unwrap(error).status, Unwrap(error).message))
              ELSE Out(store, psn, Panic)
         ELSE Out(store, psn, Ok("unit"))

\* get_first_list_item, after ListOptions::from_view(1, 1, filter, options).
get_first_list_item(store, psn, resp) ==
    LET page == get_list(store, psn, resp) IN
    IF page.ret.kind # "ok" THEN page
    ELSE IF Len(page.ret.val.items) = 0 THEN Out(store, psn, Panic)
    ELSE Out(store, psn, Ok(page.ret.val.items[Len(page.ret.val.items)]))

\* update testing no collection at all.
is_auth_collection_unchecked(coll, auth_coll_id, auth_coll_name) == TRUE

\* update's test that the service is bound to the authenticated collection.
is_auth_collection(coll, auth_coll_id, auth_coll_name) ==
    coll = auth_coll_id \/ coll = auth_coll_name

\* update without the self-update propagation.
UpdateSyncSkipped(store, coll, body) == [store |-> store, panic |-> FALSE]

\* The part of update that runs with the lock held, before the body is
\* decoded as E: the self-update propagation.  Yields the store, and
\* whether record_id.unwrap() panicked.
UpdateSync(store, coll, body) ==
    IF ~is_some(store) THEN [store |-> store, panic |-> FALSE]
    ELSE LET auth_coll_id == Unwrap(store.collection_id)
             auth_coll_name == Unwrap(store.collection_name)
         IN
         IF ~is_auth_collection(coll, auth_coll_id, auth_coll_name)
         THEN [store |-> store, panic |-> FALSE]
         ELSE LET record == from_str("RecordIdOnly", body) IN
              IF IsNone(record) THEN [store |-> store, panic |-> FALSE]
              ELSE IF IsNone(store.record_id) THEN [store |-> store, panic |-> TRUE]
              ELSE IF Unwrap(record).id # Unwrap(store.record_id)
                   THEN [store |-> store, panic |-> FALSE]
              ELSE LET s1 == set_record_id(store, Unwrap(record).id)
                       auth_record == from_str("DefaultAuthRecord", body)
                   IN [store |-> IF IsSome(auth_record)
                                 THEN set_record(s1, Unwrap(auth_record))
                                 ELSE s1,
                       panic |-> FALSE]

update(store, psn, coll, type, resp) ==
    IF get_auth_headers(store, psn).kind = "panic" THEN Out(store, TRUE, Panic)
    ELSE IF resp.transport THEN Out(store, psn, ErrReqwest)
    ELSE LET sync == UpdateSync(store, coll, resp.body)
             ret == IF type = "full"
                    THEN handle_response_body(from_str("full", resp.body), resp.body)
                    ELSE handle_response_body(from_str("slim", resp.body), resp.body)
         IN
         IF sync.panic THEN Out(sync.store, TRUE, Panic)
         ELSE Out(sync.store, ret.kind = "panic", ret)

\* auth_with_password that ends the session when the backend refuses the
\* credentials.
auth_with_password_logging_out(store, psn, resp) ==
    IF resp.transport THEN Out(store, psn, ErrReqwest)
    ELSE LET tmp == handle_response_body(
                        from_str("AuthResponseMinimal", resp.body), resp.body)
             result == handle_response_body(
                        from_str("AuthResponseFull", resp.body), resp.body)
         IN
         IF tmp.kind = "panic" \/ result.kind = "panic" THEN Out(store, psn, Panic)
         ELSE IF psn THEN Out(store, psn, Panic)
         ELSE IF tmp.kind # "ok" THEN Out(AuthStoreDefault, psn, result)
         ELSE LET response == tmp.val
                  s1 == set_token(store, response.token)
                  s2 == set_collection(s1, response.record.collection_name,
                                       response.record.collection_id)
                  s3 == set_record_id(s2, response.record.id)
              IN Out(IF result.kind = "ok" THEN set_record(s3, result.val.record) ELSE s3,
                     psn, result)

\* auth_with_password that never stores the record it decoded.
auth_with_password_without_record(store, psn, resp) ==
    IF resp.transport THEN Out(store, psn, ErrReqwest)
    ELSE LET tmp == handle_response_body(
                        from_str("AuthResponseMinimal", resp.body), resp.body)
             result == handle_response_body(
                        from_str("AuthResponseFull", resp.body), resp.body)
         IN
         IF tmp.kind = "panic" \/ result.kind = "panic" THEN Out(store, psn, Panic)
         ELSE IF tmp.kind # "ok" THEN Out(store, psn, result)
         ELSE IF psn THEN Out(store, psn, Panic)
         ELSE LET response == tmp.val
                  s1 == set_token(store, response.token)
                  s2 == set_collection(s1, response.record.collection_name,
                                       response.record.collection_id)
                  s3 == set_record_id(s2, response.record.id)
              IN Out(s3, psn, result)

auth_with_password(store, psn, resp) ==
    IF resp.transport THEN Out(store, psn, ErrReqwest)
    ELSE LET tmp == handle_response_body(
                        from_str("AuthResponseMinimal", resp.body), resp.body)
             result == handle_response_body(
                        from_str("AuthResponseFull", resp.body), resp.body)
         IN
         IF tmp.kind = "panic" \/ result.kind = "panic" THEN Out(store, psn, Panic)
         ELSE IF tmp.kind # "ok" THEN Out(store, psn, result)
         ELSE IF psn THEN Out(store, psn, Panic)
         ELSE LET response == tmp.val
                  s1 == set_token(store, response.token)
                  s2 == set_collection(s1, response.record.collection_name,
                                       response.record.collection_id)
                  s3 == set_record_id(s2, response.record.id)
              IN Out(IF result.kind = "ok" THEN set_record(s3, result.val.record) ELSE s3,
                     psn, result)

-----------------------------------------------------------------------------
(* Query options (common.rs) *)

ViewOptionsDefault == [fields |-> None, expand |-> None, sort |-> None]

ListOptionsDefault ==
    [page |-> None, per_page |-> None, skip_total |-> None, filter |-> None,
     fields |-> None, expand |-> None, sort |-> None]

paginated(page, per_page) ==
    [ListOptionsDefault EXCEPT !.page = Some(page), !.per_page = Some(per_page)]

paginated_and_skip(page, per_page) ==
    [ListOptionsDefault EXCEPT !.page = Some(page), !.per_page = Some(per_page),
                               !.skip_total = Some(TRUE)]

\* view_options is an Option<ViewOptions>.
from_view(page, per_page, filter, view_options) ==
    [page |-> page, per_page |-> per_page, filter |-> filter,
     fields |-> IF IsSome(view_options) THEN Unwrap(view_options).fields ELSE None,
     expand |-> IF IsSome(view_options) THEN Unwrap(view_options).expand ELSE None,
     sort |-> IF IsSome(view_options) THEN Unwrap(view_options).sort ELSE None,
     skip_total |-> Some(TRUE)]

\* ListOptions::from_view as pocketbase.rs has it, for the services of type
\* Collection: the three tests are is_none(), so absent view options are
\* unwrapped, which panics, and present ones are not read.
Collection_from_view(page, per_page, filter, view_options) ==
    IF IsNone(view_options) THEN Panic
    ELSE Ok([page |-> page, per_page |-> per_page, filter |-> filter,
             fields |-> None, expand |-> None, sort |-> None,
             skip_total |-> Some(TRUE)])

\* The view options a caller passes to get_first_list_item.
ViewOptionsGiven ==
    {None, Some(ViewOptionsDefault),
     Some([fields |-> Some("id"), expand |-> Some("author"), sort |-> Some("-id")])}

-----------------------------------------------------------------------------
(* The backend *)

CeilDiv(a, b) == (a + b - 1) \div b

\* A backend collection: records 1..n in server order, pages capped at cap
\* (a request that names no perPage gets pages of cap).
Backends == [n : 0..MaxN, cap : 1..MaxCap]

\* A filter is the number k of "id > k": the records k+1..n match it.
Filters == 0..MaxFilter

\* The page an honest backend serves for `options` out of collection b.
HonestListBody(b, options) ==
    LET k == IF IsSome(options.filter) THEN Unwrap(options.filter) ELSE 0
        matching == IF b.n > k THEN b.n - k ELSE 0
        page == IF IsSome(options.page) THEN Unwrap(options.page) ELSE 1
        perPage == IF IsSome(options.per_page)
                   THEN Min(Unwrap(options.per_page), b.cap) ELSE b.cap
        first == (page - 1) * perPage + 1
        end == Min(page * perPage, matching)
        count == IF end >= first THEN end - first + 1 ELSE 0
        skip == IsSome(options.skip_total) /\ Unwrap(options.skip_total)
    IN [items |-> [i \in 1..count |-> [id |-> k + first + i - 1]],
        page |-> page, perPage |-> perPage,
        totalItems |-> IF skip THEN 0 - 1 ELSE matching,
        totalPages |-> IF skip THEN 0 - 1 ELSE CeilDiv(matching, perPage)]

\* A response that is not a success: the transport fails, the body is
\* empty, the body is {message, status}.
Failures ==
    {TransportFailure, Answer(EmptyBody)} \cup
    { Answer(JsonBody(e)) : e \in ErrorBodies }

\* What can come back from the auth-with-password endpoint: a failure, or
\* any mix of a token, a record of any shape and a {message, status} part.
AuthResponses ==
    Failures \cup
    { Answer(JsonBody(t @@ r @@ e)) :
        t \in {EmptyObj} \cup { [token |-> x] : x \in Tokens },
        r \in {EmptyObj} \cup { [record |-> o] : o \in RecordObjs },
        e \in ErrorParts }

\* What can come back from a single-record endpoint: a failure, or a record
\* of any shape with or without a {message, status} part beside it.
RecordResponses ==
    Failures \cup
    { Answer(JsonBody(o @@ e)) : o \in RecordObjs, e \in ErrorParts }

\* What can come back from the list endpoint of collection b for `options`.
ListResponses(b, options) ==
    Failures \cup {Answer(JsonBody(HonestListBody(b, options)))}

-----------------------------------------------------------------------------
(* The state machine *)

\* The caller: between two operations, or holding the value of the one
\* that has just returned.
CallIdle == [pc |-> "idle"]
CallReturned == [pc |-> "returned"]

\* What `last` holds once the caller has dropped the value it got, and
\* what it holds when the client has just been constructed.
NoOperation == [op |-> "none"]
Constructed == [op |-> "new"]

\* Mutex::new(data)
Mutex(data) == [data |-> data, poisoned |-> FALSE]

\* The address of the allocation made by PocketBase::new, which the client
\* holds in its field auth_store.
ClientArc == 1

\* PocketBase::collection that gives the service a Mutex of its own,
\* holding a copy of the client's Auth State.
collection_snapshotting(h, arc, name_or_id) ==
    [heap |-> Append(h, Mutex(h[arc].data)),
     service |-> [collection_id_or_name |-> name_or_id, auth_store |-> Len(h) + 1]]

\* PocketBase::collection on a client whose field auth_store is `arc`, the
\* allocations being h: Arc::clone is the same address, nothing is
\* allocated.
collection(h, arc, name_or_id) ==
    [heap |-> h,
     service |-> [collection_id_or_name |-> name_or_id, auth_store |-> arc]]

\* PocketBase::auth_store() of the client: the data behind its Mutex, and
\* the poison flag of that Mutex.
auth_store == heap[ClientArc].data
poisoned == heap[ClientArc].poisoned

\* PocketBase::new: AuthStore::default() behind a fresh Mutex.
\* No task runs beside the caller.
NoTasks == <<>>

InitClient ==
    /\ heap = <<Mutex(AuthStoreDefault)>>
    /\ now = 0
    /\ call = CallIdle
    /\ last = Constructed
    /\ tasks = NoTasks

\* The services of every collection name, obtained one after the other.
AllServices ==
    { collection(<<Mutex(AuthStoreDefault)>>, ClientArc, n).service : n \in ServiceNames }

Init ==
    /\ InitClient
    /\ services = AllServices
    /\ backend = [n |-> 1, cap |-> 1]

InitList ==
    /\ InitClient
    /\ services = AllServices
    /\ backend \in Backends

InitShared ==
    /\ InitClient
    /\ services = {}
    /\ backend = [n |-> 1, cap |-> 1]

\* The caller obtains a service from the client.
Collection ==
    /\ call.pc = "idle"
    /\ \E name_or_id \in ServiceNames :
          LET c == collection(heap, ClientArc, name_or_id) IN
          /\ heap' = c.heap
          /\ services' = services \cup {c.service}
    /\ UNCHANGED <<now, backend, call, last, tasks>>

\* The wall clock advances.
Tick ==
    /\ now < MaxNow
    /\ now' = now + 1
    /\ UNCHANGED <<heap, services, backend, call, last, tasks>>

\* An operation of service s returns: `out` is its outcome, `input` what
\* it was given.
Finish(s, op, input, out) ==
    /\ heap' = [heap EXCEPT ![s.auth_store] =
                    [data |-> out.store, poisoned |-> out.poisoned]]
    /\ last' = [op |-> op, input |-> input, ret |-> out.ret]
    /\ call' = CallReturned
    /\ UNCHANGED <<services, now, backend, tasks>>

\* The caller is done with the value it got and goes on.
Return ==
    /\ call.pc = "returned"
    /\ call' = CallIdle
    /\ last' = NoOperation
    /\ UNCHANGED <<heap, services, now, backend, tasks>>

AuthWithPassword ==
    /\ call.pc = "idle"
    /\ \E s \in services, resp \in AuthResponses :
          LET m == heap[s.auth_store] IN
          Finish(s, "auth_with_password", [resp |-> resp],
                 auth_with_password(m.data, m.poisoned, resp))

Update ==
    /\ call.pc = "idle"
    /\ \E s \in services, type \in RecordTypes, resp \in RecordResponses :
          LET m == heap[s.auth_store] IN
          Finish(s, "update",
                 [coll |-> s.collection_id_or_name, type |-> type, resp |-> resp,
                  headers |-> get_auth_headers(m.data, m.poisoned)],
                 update(m.data, m.poisoned, s.collection_id_or_name, type, resp))

GetOne ==
    /\ call.pc = "idle"
    /\ \E s \in services, type \in RecordTypes, resp \in RecordResponses :
          LET m == heap[s.auth_store] IN
          Finish(s, "get_one",
                 [type |-> type, resp |-> resp, headers |-> get_auth_headers(m.data, m.poisoned)],
                 get_one(m.data, m.poisoned, type, resp))

Create ==
    /\ call.pc = "idle"
    /\ \E s \in services, type \in RecordTypes, resp \in RecordResponses :
          LET m == heap[s.auth_store] IN
          Finish(s, "create",
                 [type |-> type, resp |-> resp, headers |-> get_auth_headers(m.data, m.poisoned)],
                 create(m.data, m.poisoned, type, resp))

Delete ==
    /\ call.pc = "idle"
    /\ \E s \in services, resp \in RecordResponses :
          LET m == heap[s.auth_store] IN
          Finish(s, "delete", [resp |-> resp, headers |-> get_auth_headers(m.data, m.poisoned)],
                 delete(m.data, m.poisoned, resp))

GetList ==
    /\ call.pc = "idle"
    /\ \E s \in services :
       \E options \in {ListOptionsDefault, paginated(1, 1), paginated(2, 2)} :
       \E resp \in ListResponses(backend, options) :
          LET m == heap[s.auth_store] IN
          Finish(s, "get_list",
                 [options |-> options, resp |-> resp,
                  headers |-> get_auth_headers(m.data, m.poisoned)],
                 get_list(m.data, m.poisoned, resp))

GetFirstListItem ==
    /\ call.pc = "idle"
    /\ \E s \in services :
       \E filter \in Filters, view_options \in ViewOptionsGiven :
       LET list_options == from_view(Some(1), Some(1), Some(filter), view_options) IN
       \E resp \in ListResponses(backend, list_options) :
          LET m == heap[s.auth_store] IN
          Finish(s, "get_first_list_item",
                 [filter |-> filter, view_options |-> view_options,
                  options |-> list_options, reqs |-> <<list_options>>,
                  resp |-> resp],
                 get_first_list_item(m.data, m.poisoned, resp))

\* get_first_list_item of a service of type Collection: the same code over
\* the from_view of pocketbase.rs; a panic of from_view ends the call before
\* any request.
CollectionGetFirstListItem ==
    /\ call.pc = "idle"
    /\ \E s \in services :
       \E filter \in Filters, view_options \in ViewOptionsGiven :
       LET list_options == Collection_from_view(Some(1), Some(1), Some(filter), view_options)
           m == heap[s.auth_store]
       IN
       IF list_options.kind = "panic"
       THEN Finish(s, "Collection::get_first_list_item",
                   [filter |-> filter, view_options |-> view_options, reqs |-> <<>>],
                   Out(m.data, m.poisoned, Panic))
       ELSE \E resp \in ListResponses(backend, list_options.val) :
               Finish(s, "Collection::get_first_list_item",
                      [filter |-> filter, view_options |-> view_options,
                       options |-> list_options.val, reqs |-> <<list_options.val>>,
                       resp |-> resp],
                      get_first_list_item(m.data, m.poisoned, resp))

\* get_full_list up to its loop: page_index = 1, items empty.  reqs and
\* pages log the get_list calls of this call and the items they returned.
GetFullListStart ==
    /\ call.pc = "idle"
    /\ \E s \in services :
          call' = [pc |-> "loop", self |-> s, page_index |-> 1, items |-> <<>>,
                   reqs |-> <<>>, pages |-> <<>>]
    /\ UNCHANGED <<heap, services, now, backend, last, tasks>>

\* The test of the loop against the page size asked for.
has_more_requested(number_of_fetched_items, page) ==
    number_of_fetched_items = FullListPerPage

\* The test of the loop going on until a page comes back empty.
has_more_nonempty(number_of_fetched_items, page) ==
    number_of_fetched_items > 0

\* The test of a loop that no page ends.
has_more_always(number_of_fetched_items, page) == TRUE

\* The test of get_full_list's loop: the page is full, there may be more.
has_more(number_of_fetched_items, page) ==
    number_of_fetched_items = page.per_page

\* A turn of the loop that returns what it has when a request fails.
full_list_turn_swallowing(c, options, pages) ==
    LET reqs == Append(c.reqs, options) IN
    IF pages.ret.kind # "ok"
    THEN [pc |-> "return", ret |-> Ok(c.items), reqs |-> reqs, pages |-> c.pages]
    ELSE LET page == pages.ret.val
             number_of_fetched_items == Len(page.items)
             items == c.items \o page.items
             fetched == Append(c.pages, page.items)
         IN
         IF number_of_fetched_items = page.per_page
         THEN [pc |-> "loop", self |-> c.self, page_index |-> c.page_index + 1,
               items |-> items, reqs |-> reqs, pages |-> fetched]
         ELSE [pc |-> "return", ret |-> Ok(items), reqs |-> reqs, pages |-> fetched]

\* One turn of the loop of get_full_list on its locals c, `pages` being
\* what get_list(options) returned: the locals of the next turn, or the
\* value to return.
full_list_turn(c, options, pages) ==
    LET reqs == Append(c.reqs, options) IN
    IF pages.ret.kind # "ok"
    THEN [pc |-> "return", ret |-> pages.ret, reqs |-> reqs, pages |-> c.pages]
    ELSE LET page == pages.ret.val
             number_of_fetched_items == Len(page.items)
             items == c.items \o page.items
             fetched == Append(c.pages, page.items)
         IN
         IF has_more(number_of_fetched_items, page)
         THEN [pc |-> "loop", self |-> c.self, page_index |-> c.page_index + 1,
               items |-> items, reqs |-> reqs, pages |-> fetched]
         ELSE [pc |-> "return", ret |-> Ok(items), reqs |-> reqs, pages |-> fetched]

\* One turn of the loop of get_full_list: a get_list, then the test.
GetFullListPage ==
    /\ call.pc = "loop"
    /\ LET options == paginated_and_skip(call.page_index, FullListPerPage) IN
       \E resp \in ListResponses(backend, options) :
          LET m == heap[call.self.auth_store]
              pages == get_list(m.data, m.poisoned, resp)
              turn == full_list_turn(call, options, pages)
          IN
          IF turn.pc = "loop"
          THEN /\ call' = turn
               /\ UNCHANGED <<heap, services, now, backend, last, tasks>>
          ELSE Finish(call.self, "get_full_list",
                      [reqs |-> turn.reqs, pages |-> turn.pages, resp |-> resp],
                      Out(pages.store, pages.poisoned, turn.ret))

Next ==
    \/ Tick
    \/ Return
    \/ AuthWithPassword
    \/ Update
    \/ GetOne
    \/ Create
    \/ Delete
    \/ GetList
    \/ GetFirstListItem
    \/ GetFullListStart
    \/ GetFullListPage

Spec == Init /\ [][Next]_vars

\* The list operations alone, against every backend collection.
NextList ==
    \/ Return
    \/ GetList
    \/ GetFirstListItem
    \/ CollectionGetFirstListItem
    \/ GetFullListStart
    \/ GetFullListPage

SpecList == InitList /\ [][NextList]_vars

\* The token functions of auth.rs, applied to every token string at every
\* reading of the clock.
IsTokenExpired ==
    /\ call.pc = "idle"
    /\ \E token \in AnyTokens :
          last' = [op |-> "is_token_expired",
                   input |-> [token |-> token, timestamp |-> now],
                   ret |-> Ok(is_token_expired(token, now))]
    /\ call' = CallReturned
    /\ UNCHANGED <<heap, services, now, backend, tasks>>

GetTokenPayload ==
    /\ call.pc = "idle"
    /\ \E token \in AnyTokens :
          last' = [op |-> "get_token_payload",
                   input |-> [token |-> token],
                   ret |-> Ok(get_token_payload(token))]
    /\ call' = CallReturned
    /\ UNCHANGED <<heap, services, now, backend, tasks>>

NextToken ==
    \/ Tick
    \/ Return
    \/ IsTokenExpired
    \/ GetTokenPayload

SpecToken == InitShared /\ [][NextToken]_vars

\* A client whose services are obtained as the run goes, before and after
\* the authentications.
NextShared ==
    \/ Return
    \/ Collection
    \/ AuthWithPassword
    \/ GetOne

SpecShared == InitShared /\ [][NextShared]_vars

-----------------------------------------------------------------------------
(* Properties *)

\* All five fields of Auth State are set.
FullyPopulated(store) ==
    /\ IsSome(store.token)
    /\ IsSome(store.record)
    /\ IsSome(store.collection_id)
    /\ IsSome(store.collection_name)
    /\ IsSome(store.record_id)

\* All five fields of Auth State are unset.
FullyUnset(store) == store = AuthStoreDefault

\* The step in which operation op returns to its caller.
Returns(op) ==
    /\ call.pc # "returned"
    /\ call'.pc = "returned"
    /\ last'.op = op

\* Operation op has just returned.
Returned(op) == call.pc = "returned" /\ last.op = op

\* The body of the response the last operation got (for a JSON answer).
Got(l) == l.input.resp.body

GotJson(l) == ~l.input.resp.transport /\ Got(l).text = "json"

\* C1 (as stated): in every reachable state the five fields of Auth State
\* are all set or all unset.
C1_AllFiveTogether == FullyPopulated(auth_store) \/ FullyUnset(auth_store)

\* C1 (amended): token, collection_id, collection_name and record_id are
\* all set or all unset, and record is set only when those four are set.
C1_FourTogetherRecordWithThem ==
    /\ \/ /\ IsSome(auth_store.token)
          /\ IsSome(auth_store.collection_id)
          /\ IsSome(auth_store.collection_name)
          /\ IsSome(auth_store.record_id)
       \/ /\ IsNone(auth_store.token)
          /\ IsNone(auth_store.collection_id)
          /\ IsNone(auth_store.collection_name)
          /\ IsNone(auth_store.record_id)
    /\ IsSome(auth_store.record) => IsSome(auth_store.token)

\* An authentication has stored a token and identity but no record.
C1_Witness ==
    /\ Returned("auth_with_password")
    /\ IsSome(auth_store.token)
    /\ IsSome(auth_store.record_id)
    /\ IsNone(auth_store.record)

\* What a successful auth_with_password leaves in Auth State.
AuthStored ==
    /\ FullyPopulated(auth_store)
    /\ Unwrap(auth_store.token) = Got(last).json.token
    /\ Unwrap(auth_store.collection_id) = Got(last).json.record.collectionId
    /\ Unwrap(auth_store.collection_name) = Got(last).json.record.collectionName
    /\ Unwrap(auth_store.record_id) = Got(last).json.record.id
    /\ Unwrap(auth_store.record).id = Got(last).json.record.id

\* C2 (as stated): after an auth_with_password that returns success, Auth
\* State is fully populated from the response and is_valid() is true.
C2_AuthSuccessPopulatedAndValid ==
    (Returned("auth_with_password") /\ last.ret.kind = "ok")
    => (AuthStored /\ is_valid(auth_store, now))

\* C2 (amended): after an auth_with_password that returns success, Auth
\* State is fully populated from the response, and is_valid() is true
\* exactly when the token of the response decodes and is not expired.
C2_AuthSuccessPopulated ==
    (Returned("auth_with_password") /\ last.ret.kind = "ok")
    => /\ AuthStored
       /\ is_valid(auth_store, now) <=> ~is_token_expired(Got(last).json.token, now)

\* An authentication has succeeded and left a valid session.
C2_Witness ==
    /\ Returned("auth_with_password")
    /\ last.ret.kind = "ok"
    /\ is_valid(auth_store, now)

\* The body decodes against the minimal shape but not against AuthResponse<T>.
MinimalOnly(body) ==
    /\ IsSome(from_str("AuthResponseMinimal", body))
    /\ IsNone(from_str("AuthResponseFull", body))

\* C3: when the body decodes against the minimal shape but not against
\* AuthResponse<T>, auth_with_password returns an error, and Auth State
\* holds the new token and collection id/name while the record is the one
\* it held before.
C3_PartialAuthReturnsError ==
    [][ (Returns("auth_with_password") /\ ~last'.input.resp.transport
            /\ MinimalOnly(Got(last')))
        => /\ last'.ret.kind = "http"
           /\ auth_store'.token = Some(Got(last').json.token)
           /\ auth_store'.collection_id = Some(Got(last').json.record.collectionId)
           /\ auth_store'.collection_name = Some(Got(last').json.record.collectionName)
           /\ auth_store'.record = auth_store.record ]_vars

\* The failing input of C3 has been received: a token and a record with
\* the system fields only, and nothing else.
C3_FailingInput ==
    /\ Returned("auth_with_password")
    /\ GotJson(last)
    /\ MinimalOnly(Got(last))
    /\ ~HasKeys(Got(last).json, {"message"})

\* The service bound to `coll` is the authenticated collection of `store`.
BoundToAuthCollection(coll, store) ==
    \/ coll = Unwrap(store.collection_id)
    \/ coll = Unwrap(store.collection_name)

\* The response of update `l` carries the id of the authenticated record of
\* a fully populated `store`, through a service of its collection.
SelfUpdate(store, l) ==
    /\ FullyPopulated(store)
    /\ BoundToAuthCollection(l.input.coll, store)
    /\ GotJson(l)
    /\ HasKeys(Got(l).json, {"id"})
    /\ Got(l).json.id = Unwrap(store.record_id)

C5_UpdateFrame ==
    [][ Returns("update")
        => /\ auth_store' # auth_store => SelfUpdate(auth_store, last')
           /\ auth_store'.token = auth_store.token
           /\ auth_store'.collection_id = auth_store.collection_id
           /\ auth_store'.collection_name = auth_store.collection_name ]_vars

\* An update of another user's record has succeeded while a user is
\* authenticated in the same collection.
C5_Witness ==
    /\ Returned("update")
    /\ last.ret.kind = "ok"
    /\ FullyPopulated(auth_store)
    /\ BoundToAuthCollection(last.input.coll, auth_store)
    /\ Got(last).json.id # Unwrap(auth_store.record_id)

ReadOperations ==
    {"get_list", "get_one", "get_full_list", "get_first_list_item", "create", "delete"}

ServerOrder(n) == [i \in 1..n |-> [id |-> i]]

RECURSIVE Concat(_)
Concat(seqs) == IF seqs = <<>> THEN <<>> ELSE Head(seqs) \o Concat(Tail(seqs))

\* The size of the pages the backend serves to get_full_list.
PageSize == Min(FullListPerPage, backend.cap)

\* C7: a successful get_full_list returns the N records of the collection
\* in server order, which is the concatenation of the pages of its
\* get_list calls; those were made with per_page=1000 and skip_total=true
\* for pages 1, 2, ... up to and including the first short page.
C7_FullListIsConcatenation ==
    (Returned("get_full_list") /\ last.ret.kind = "ok")
    => LET reqs == last.input.reqs
           pages == last.input.pages
       IN /\ Len(last.ret.val) = backend.n
          /\ last.ret.val = ServerOrder(backend.n)
          /\ last.ret.val = Concat(pages)
          /\ Len(pages) = Len(reqs)
          /\ \A k \in 1..Len(reqs) : reqs[k] = paginated_and_skip(k, FullListPerPage)
          /\ \A k \in 1..(Len(pages) - 1) : Len(pages[k]) = PageSize
          /\ Len(pages[Len(pages)]) < PageSize

\* A full list of several pages has been returned.
C7_Witness ==
    /\ Returned("get_full_list")
    /\ last.ret.kind = "ok"
    /\ Len(last.input.reqs) >= 3
    /\ Len(last.ret.val) > 2 * PageSize

\* C8 (as stated): get_full_list issues exactly ceil(N/P) list requests.
C8_CeilRequests ==
    (Returned("get_full_list") /\ last.ret.kind = "ok")
    => Len(last.input.reqs) = CeilDiv(backend.n, PageSize)

\* C8 (amended): get_full_list issues exactly floor(N/P) + 1 list requests:
\* ceil(N/P) when P does not divide N, one more when it does (N = 0
\* included), the last page then being empty.
C8_FloorPlusOneRequests ==
    (Returned("get_full_list") /\ last.ret.kind = "ok")
    => Len(last.input.reqs) = (backend.n \div PageSize) + 1

\* A collection whose size is a positive multiple of the page size has
\* been listed in full.
C8_Witness ==
    /\ Returned("get_full_list")
    /\ last.ret.kind = "ok"
    /\ backend.n > 0
    /\ backend.n % PageSize = 0
    /\ Len(last.input.reqs) = (backend.n \div PageSize) + 1

\* The answer is a transport failure or a {message, status} body with an
\* HTTP status.
FailedRequest(resp) ==
    \/ resp.transport
    \/ /\ IsSome(from_str("ResponseError", resp.body))
       /\ ValidStatus(resp.body.json.status)

\* The error a failed request stands for.
ErrorOf(resp) ==
    IF resp.transport THEN ErrReqwest
    ELSE ErrHttp(resp.body.json.status, resp.body.json.message)

C10_FirstItemOrNotFound ==
    (Returned("get_first_list_item")
        /\ GotJson(last)
        /\ IsSome(from_str("ListResponse", Got(last))))
    => IF Got(last).json.items = <<>>
       THEN last.ret.kind = "http" /\ last.ret.status = NOT_FOUND
       ELSE last.ret = Ok([id |-> last.input.filter + 1])

\* The failing input of C10 has been received: a page without items.
C10_FailingInput ==
    /\ Returned("get_first_list_item")
    /\ GotJson(last)
    /\ IsSome(from_str("ListResponse", Got(last)))
    /\ Got(last).json.items = <<>>

\* The operations that go through handle_response_body with a success
\* shape of their own.
DecodingOperations == {"get_list", "get_one", "create", "update"}

\* The success shape operation `l` decodes its body against.
SuccessShape(l) == IF l.op = "get_list" THEN "ListResponse" ELSE l.input.type

\* C11: for get_list, get_one, create and update, a body that matches the
\* success shape yields that success value, and a body that does not but
\* matches {message, status} yields the HTTP error carrying that status
\* and that message.
C11_SuccessShapeFirst ==
    (call.pc = "returned" /\ last.op \in DecodingOperations /\ GotJson(last))
    => LET success == from_str(SuccessShape(last), Got(last))
           error == from_str("ResponseError", Got(last))
       IN /\ IsSome(success) => last.ret = Ok(Unwrap(success))
          /\ (IsNone(success) /\ IsSome(error))
                => last.ret = ErrHttp(Unwrap(error).status, Unwrap(error).message)

\* The failing input of C11 has been received: a {message, status} body
\* whose status is below 100.
C11_FailingInput ==
    /\ Returned("get_one")
    /\ GotJson(last)
    /\ Got(last).json = [message |-> "Failed.", status |-> 99]

RecordOperations ==
    {"get_list", "get_one", "get_full_list", "get_first_list_item", "create",
     "update", "auth_with_password"}

\* C12: every record operation returns a typed success or a typed error,
\* whatever the body of the response; none aborts.
C12_NoPanic ==
    (call.pc = "returned" /\ last.op \in RecordOperations)
    => last.ret.kind \in {"ok", "http", "reqwest"}

\* The failing input of C12 has been received: a body that is a JSON
\* object with neither a record nor a message in it.
C12_FailingInput ==
    /\ Returned("get_one")
    /\ GotJson(last)
    /\ Got(last).json = EmptyObj

\* C13: delete returns success on an empty body, the HTTP error of the
\* body when the body parses as {message, status}, and success on any
\* other body.
C13_DeleteOutcomes ==
    (Returned("delete") /\ ~last.input.resp.transport)
    => LET error == from_str("ResponseError", Got(last)) IN
       IF Got(last).text = "empty" THEN last.ret = Ok("unit")
       ELSE IF IsSome(error)
            THEN last.ret = ErrHttp(Unwrap(error).status, Unwrap(error).message)
            ELSE last.ret = Ok("unit")

\* The failing input of C13 has been received: a {message, status} body
\* whose status is below 100, on a Mutex that no panic had poisoned.
C13_FailingInput ==
    /\ Returned("delete")
    /\ GotJson(last)
    /\ Got(last).json = [message |-> "Failed.", status |-> 99]
    /\ ~poisoned

\* The auth_with_password that returns in this step has stored the token
\* of its response.
StoresToken ==
    /\ Returns("auth_with_password")
    /\ GotJson(last')
    /\ IsSome(from_str("AuthResponseMinimal", Got(last')))
    /\ last'.ret.kind # "panic"

\* C14: the services obtained from one client share the client's Auth
\* State: each of them reads what auth_store() returns on the client; a
\* token stored by an authentication through any of them is the one
\* auth_store() shows and the one every service, obtained before or
\* after, sends as its bearer token in the requests it builds.
C14_SharedAuthState ==
    [][ /\ \A s \in services' : heap'[s.auth_store].data = auth_store'
        /\ StoresToken
              => /\ auth_store'.token = Some(Got(last').json.token)
                 /\ \A s \in services' :
                       LET m == heap'[s.auth_store]
                           headers == get_auth_headers(m.data, m.poisoned)
                       IN headers.kind = "ok"
                             => headers.val = Bearer(Got(last').json.token)
        /\ Returns("get_one")
              => last'.input.headers = get_auth_headers(auth_store, poisoned) ]_vars

\* A request has carried the token of an earlier authentication, the
\* client having handed out the services of all its collections.
C14_Witness ==
    /\ Returned("get_one")
    /\ services = AllServices
    /\ IsSome(auth_store.token)
    /\ last.input.headers = Ok(Bearer(Unwrap(auth_store.token)))

\* C15: the Auth State of a client that has just been constructed has
\* every field unset, and is_valid() and is_superuser() are false on it.
C15_FreshClientUnset ==
    last = Constructed
    => /\ FullyUnset(auth_store)
       /\ \A f \in DOMAIN auth_store : IsNone(auth_store[f])
       /\ ~is_valid(auth_store, now)
       /\ ~is_superuser(auth_store)

\* A client that has just been constructed, the clock having moved on.
C15_Witness ==
    /\ last = Constructed
    /\ now > 0
    /\ auth_store = AuthStoreDefault

\* The payload of the token of Auth State, when there is a token.
StoredPayload ==
    IF IsSome(auth_store.token) THEN get_token_payload(Unwrap(auth_store.token))
    ELSE None

\* What C16 says is_superuser() is.
SuperuserByDefinition ==
    /\ FullyPopulated(auth_store)
    /\ IsSome(StoredPayload)
    /\ Unwrap(StoredPayload).token_type = "auth"
    /\ \/ Unwrap(auth_store.collection_name) = SuperusersCollectionName
       \/ Unwrap(StoredPayload).collection_id = SuperusersCollectionId

\* The authenticated collection is the superusers collection.
AuthenticatedAsSuperuser ==
    \/ Unwrap(auth_store.collection_name) = SuperusersCollectionName
    \/ Unwrap(auth_store.collection_id) = SuperusersCollectionId

C17_ValidIffPopulatedAndFresh ==
    is_valid(auth_store, now)
    <=> /\ FullyPopulated(auth_store)
        /\ IsSome(StoredPayload)
        /\ Unwrap(StoredPayload).exp > now

\* Auth State is fully populated with a token that does not decode, and
\* is_valid() is false.
C17_Witness ==
    /\ FullyPopulated(auth_store)
    /\ IsNone(StoredPayload)
    /\ ~is_valid(auth_store, now)

\* The operations that send the headers of get_auth_headers.
HeaderOperations == {"get_list", "get_one", "create", "update", "delete"}

\* C19: every request of get_list, get_one, create, update and delete
\* carries Authorization: Bearer <token>, with the token stored when the
\* request is built, exactly when a token is stored then, be it expired
\* or Auth State incomplete; it carries no Authorization header when no
\* token is stored.
C19_BearerIffTokenStored ==
    [][ \A op \in HeaderOperations :
          (Returns(op) /\ last'.input.headers.kind = "ok")
          => last'.input.headers.val =
                IF IsSome(auth_store.token) THEN Bearer(Unwrap(auth_store.token))
                ELSE EmptyObj ]_vars

\* A request has carried the token of an Auth State without a record.
C19_Witness ==
    /\ call.pc = "returned"
    /\ last.op \in HeaderOperations
    /\ IsNone(auth_store.record)
    /\ IsSome(auth_store.token)
    /\ last.input.headers = Ok(Bearer(Unwrap(auth_store.token)))
    /\ ~is_valid(auth_store, now)

\* The payload of `token` can be decoded: there is a second segment, it is
\* base64url of UTF-8 text, and the text is the JSON of a JwtPayload.
Decodable(token) ==
    /\ Len(token) >= 2
    /\ token[2].b64
    /\ token[2].utf8
    /\ JwtPayloadKeys \subseteq DOMAIN token[2].json
    /\ token[2].json.exp >= 0

\* C18: is_token_expired(token) is true for every token whose payload
\* cannot be decoded; for a decodable token it is true iff exp <= now, so
\* that exp = now is expired and exp = now + 1 is not.
C18_ExpiredIffExpNotAfterNow ==
    Returned("is_token_expired")
    => LET token == last.input.token
           timestamp == last.input.timestamp
       IN /\ ~Decodable(token) => last.ret.val = TRUE
          /\ Decodable(token)
                => /\ last.ret.val = (token[2].json.exp <= timestamp)
                   /\ token[2].json.exp = timestamp => last.ret.val = TRUE
                   /\ token[2].json.exp = timestamp + 1 => last.ret.val = FALSE

\* is_token_expired has been given a token in the very second of its exp.
C18_Witness ==
    /\ Returned("is_token_expired")
    /\ Decodable(last.input.token)
    /\ last.input.token[2].json.exp = last.input.timestamp
    /\ last.input.timestamp > 0
    /\ last.ret.val = TRUE

\* C20: there is no logout: a field of the client's Auth State that is set
\* is set in every later state; no step, that of a failed authentication
\* or of a failed update included, makes it unset.
C20_NoFieldUnset ==
    [][ \A f \in DOMAIN auth_store :
          IsSome(auth_store[f]) => IsSome(auth_store'[f]) ]_vars

\* An authentication has been refused, or an update has failed, while a
\* session was stored, and the session is still there.
C20_Witness ==
    /\ call.pc = "returned"
    /\ last.op \in {"auth_with_password", "update"}
    /\ last.ret.kind = "http"
    /\ GotJson(last)
    /\ ~HasKeys(Got(last).json, {"token"})
    /\ FullyPopulated(auth_store)

-----------------------------------------------------------------------------
(* Client construction *)

MaxUrlLen == 6     \* a base URL has at most MaxUrlLen characters

\* Strings are sequences of characters; a base URL is written with these.
UrlChars == {"h", "/"}

RECURSIVE StringsUpTo(_, _)
StringsUpTo(chars, n) ==
    IF n = 0 THEN {<<>>}
    ELSE LET shorter == StringsUpTo(chars, n - 1) IN
         shorter \cup { Append(s, c) : s \in {x \in shorter : Len(x) = n - 1}, c \in chars }

BaseUrls == StringsUpTo(UrlChars, MaxUrlLen)

\* str::strip_prefix, which removes from the wrong end.
strip_prefix(s, prefix) ==
    IF Len(s) >= Len(prefix) /\ SubSeq(s, 1, Len(prefix)) = prefix
    THEN Some(SubSeq(s, Len(prefix) + 1, Len(s)))
    ELSE None

\* str::strip_suffix: the string without the suffix, None if it does not
\* end with it.
strip_suffix(s, suffix) ==
    IF Len(s) >= Len(suffix) /\ SubSeq(s, Len(s) - Len(suffix) + 1, Len(s)) = suffix
    THEN Some(SubSeq(s, 1, Len(s) - Len(suffix)))
    ELSE None

\* PocketBase::new: the unwrap panics on a URL without a trailing slash.
PocketBase_new(base_url) ==
    LET url == strip_suffix(base_url, <<"/">>) IN
    IF IsNone(url) THEN Panic
    ELSE Ok([base_url |-> Unwrap(url),
             auth_store |-> Mutex(AuthStoreDefault),
             collections |-> [base_crud_path |-> "/api/collections",
                              base_url |-> Unwrap(url)]])

New ==
    /\ call.pc = "idle"
    /\ \E base_url \in BaseUrls :
          last' = [op |-> "PocketBase::new",
                   input |-> [base_url |-> base_url],
                   ret |-> PocketBase_new(base_url)]
    /\ call' = CallReturned
    /\ UNCHANGED <<heap, services, now, backend, tasks>>

NextUrl ==
    \/ Return
    \/ New

SpecUrl == InitShared /\ [][NextUrl]_vars

\* The string ends with one slash and no more.
SingleTrailingSlash(s) ==
    /\ Len(s) >= 1
    /\ s[Len(s)] = "/"
    /\ Len(s) >= 2 => s[Len(s) - 1] # "/"

\* C21: for every base URL ending in a single trailing slash, the
\* construction of the client succeeds and the stored base URL is the input
\* with exactly that one slash removed.
C21_SlashStripped ==
    (Returned("PocketBase::new") /\ SingleTrailingSlash(last.input.base_url))
        => /\ last.ret.kind = "ok"
           /\ last.ret.val.base_url \o <<"/">> = last.input.base_url
           /\ Len(last.ret.val.base_url) = Len(last.input.base_url) - 1
           /\ last.ret.val.collections.base_url = last.ret.val.base_url

\* A client has been constructed from a URL of several characters that
\* ends in one slash.
C21_Witness ==
    /\ Returned("PocketBase::new")
    /\ SingleTrailingSlash(last.input.base_url)
    /\ Len(last.input.base_url) = MaxUrlLen
    /\ last.input.base_url[1] = "h"
    /\ last.ret.kind = "ok"

-----------------------------------------------------------------------------
(* The query encoder *)

MaxQueryPage == 10     \* an encoded page number is 1 or MaxQueryPage

\* The decimal digits of format!("{}", n).
DigitChars == <<"0", "1", "2", "3", "4", "5", "6", "7", "8", "9">>

RECURSIVE Digits(_)
Digits(n) ==
    IF n < 10 THEN <<DigitChars[n + 1]>>
    ELSE Digits(n \div 10) \o <<DigitChars[(n % 10) + 1]>>

\* urlencoding::encode of one character: letters, digits, '-', '_', '.'
\* and '~' stay, any other byte becomes %XX.
EncodeChar(c) ==
    CASE c = "&" -> <<"%", "2", "6">>
      [] c = "=" -> <<"%", "3", "D">>
      [] c = "," -> <<"%", "2", "C">>
      [] c = "%" -> <<"%", "2", "5">>
      [] OTHER   -> <<c>>

RECURSIVE encode(_)
encode(s) ==
    IF s = <<>> THEN <<>> ELSE EncodeChar(Head(s)) \o encode(Tail(s))

\* What the backend reads back from an encoded value.
RECURSIVE decode(_)
decode(s) ==
    IF s = <<>> THEN <<>>
    ELSE IF Head(s) = "%" /\ Len(s) >= 3
         THEN LET hex == SubSeq(s, 2, 3)
                  c == CASE hex = <<"2", "6">> -> "&"
                         [] hex = <<"3", "D">> -> "="
                         [] hex = <<"2", "C">> -> ","
                         [] hex = <<"2", "5">> -> "%"
                         [] OTHER -> "?"
              IN <<c>> \o decode(SubSeq(s, 4, Len(s)))
         ELSE <<Head(s)>> \o decode(Tail(s))

\* One "key=value&" of the query; the key is written as one symbol.
QueryParam(key, value) == <<key, "=">> \o value \o <<"&">>

\* ListOptions::to_url_query
ListOptions_to_url_query(self) ==
    LET page == IF IsSome(self.page)
                THEN QueryParam("page", Digits(Unwrap(self.page))) ELSE <<>>
        per_page == IF IsSome(self.per_page)
                    THEN QueryParam("perPage", Digits(Unwrap(self.per_page))) ELSE <<>>
        skip_total == IF IsSome(self.skip_total)
                      THEN QueryParam("skipTotal",
                                      IF Unwrap(self.skip_total) THEN <<"1">> ELSE <<"0">>)
                      ELSE <<>>
        filter == IF IsSome(self.filter)
                  THEN QueryParam("filter", encode(Unwrap(self.filter))) ELSE <<>>
        fields == IF IsSome(self.fields)
                  THEN QueryParam("fields", encode(Unwrap(self.fields))) ELSE <<>>
        expand == IF IsSome(self.expand)
                  THEN QueryParam("expand", encode(Unwrap(self.expand))) ELSE <<>>
        sort == IF IsSome(self.sort)
                THEN QueryParam("sort", encode(Unwrap(self.sort))) ELSE <<>>
        url == <<"?">> \o page \o per_page \o skip_total \o filter \o fields
                       \o expand \o sort
    IN IF Len(url) = 1 THEN <<>> ELSE Unwrap(strip_suffix(url, <<"&">>))

\* ViewOptions::to_url_query
ViewOptions_to_url_query(self) ==
    LET expand == IF IsSome(self.expand)
                  THEN QueryParam("expand", encode(Unwrap(self.expand))) ELSE <<>>
        sort == IF IsSome(self.sort)
                THEN QueryParam("sort", encode(Unwrap(self.sort))) ELSE <<>>
        url == <<"?">> \o expand \o sort
    IN IF Len(url) = 1 THEN <<>> ELSE Unwrap(strip_suffix(url, <<"&">>))

\* The options the encoders are given.
OptionOf(S) == {None} \cup { Some(x) : x \in S }

QueryViewOptions ==
    [fields : OptionOf({<<"i", "d", ",", "a">>}),
     expand : OptionOf({<<"a">>, <<"a", "&", "b">>}),
     sort   : OptionOf({<<"-", "a">>, <<"a", "=">>})]

QueryListOptions ==
    [page : OptionOf({1, MaxQueryPage}),
     per_page : OptionOf({2}),
     skip_total : OptionOf(BOOLEAN),
     filter : OptionOf({<<"a", "=", "1">>}),
     fields : OptionOf({<<"i", "d", ",", "a">>}),
     expand : OptionOf({<<"a", "&", "b">>}),
     sort   : OptionOf({<<"-", "a">>})]

ListToUrlQuery ==
    /\ call.pc = "idle"
    /\ \E options \in QueryListOptions :
          last' = [op |-> "ListOptions::to_url_query",
                   input |-> [options |-> options],
                   ret |-> Ok(ListOptions_to_url_query(options))]
    /\ call' = CallReturned
    /\ UNCHANGED <<heap, services, now, backend, tasks>>

ViewToUrlQuery ==
    /\ call.pc = "idle"
    /\ \E options \in QueryViewOptions :
          last' = [op |-> "ViewOptions::to_url_query",
                   input |-> [options |-> options],
                   ret |-> Ok(ViewOptions_to_url_query(options))]
    /\ call' = CallReturned
    /\ UNCHANGED <<heap, services, now, backend, tasks>>

NextQuery ==
    \/ Return
    \/ ListToUrlQuery
    \/ ViewToUrlQuery

SpecQuery == InitShared /\ [][NextQuery]_vars

\* The pieces of s between the occurrences of sep.
RECURSIVE Split(_, _)
Split(s, sep) ==
    IF \A i \in 1..Len(s) : s[i] # sep THEN <<s>>
    ELSE LET i == CHOOSE i \in 1..Len(s) :
                     s[i] = sep /\ \A j \in 1..(i - 1) : s[j] # sep
         IN <<SubSeq(s, 1, i - 1)>> \o Split(SubSeq(s, i + 1, Len(s)), sep)

\* The parameters of list options and of view options, in the fixed order,
\* each with its key and the text of its value when it is set.
TextOf(opt, text) == IF IsSome(opt) THEN Some(text) ELSE None

ListParams(o) ==
    << <<"page", TextOf(o.page, Digits(IF IsSome(o.page) THEN Unwrap(o.page) ELSE 0))>>,
       <<"perPage", TextOf(o.per_page, Digits(IF IsSome(o.per_page) THEN Unwrap(o.per_page) ELSE 0))>>,
       <<"skipTotal", TextOf(o.skip_total, IF o.skip_total = Some(TRUE) THEN <<"1">> ELSE <<"0">>)>>,
       <<"filter", o.filter>>,
       <<"fields", o.fields>>,
       <<"expand", o.expand>>,
       <<"sort", o.sort>> >>

ViewParams(o) ==
    << <<"fields", o.fields>>, <<"expand", o.expand>>, <<"sort", o.sort>> >>

IsSetParam(p) == IsSome(p[2])

\* `query` is what the contract asks for the parameters `params`.
QueryShape(params, query) ==
    LET set == SelectSeq(params, IsSetParam) IN
    IF set = <<>> THEN query = <<>>
    ELSE /\ Len(query) >= 2
         /\ query[1] = "?"
         /\ query[Len(query)] # "&"
         /\ LET pairs == Split(Tail(query), "&") IN
            /\ Len(pairs) = Len(set)
            /\ \A i \in 1..Len(pairs) :
                  /\ Len(pairs[i]) >= 2
                  /\ pairs[i][1] = set[i][1]
                  /\ pairs[i][2] = "="
                  /\ \A j \in 3..Len(pairs[i]) : pairs[i][j] # "="
                  /\ decode(SubSeq(pairs[i], 3, Len(pairs[i]))) = Unwrap(set[i][2])

C22_FailingInput ==
    /\ Returned("ViewOptions::to_url_query")
    /\ IsSome(last.input.options.fields)
    /\ IsNone(last.input.options.expand)
    /\ IsNone(last.input.options.sort)
    /\ last.ret.val = <<>>

\* What holds of the encoders: the list encoder keeps the contract, and so
\* does the view encoder for expand and sort, `fields` never being written.
C22_QueryShapeButViewFields ==
    /\ Returned("ListOptions::to_url_query")
          => QueryShape(ListParams(last.input.options), last.ret.val)
    /\ Returned("ViewOptions::to_url_query")
          => QueryShape(Tail(ViewParams(last.input.options)), last.ret.val)

-----------------------------------------------------------------------------
(* get_first_list_item and the view options *)

\* The list options get_first_list_item is to build out of a filter and
\* the caller's view options.
ExpectedFromView(filter, view_options) ==
    [page |-> Some(1), per_page |-> Some(1), skip_total |-> Some(TRUE),
     filter |-> Some(filter),
     fields |-> IF IsSome(view_options) THEN Unwrap(view_options).fields ELSE None,
     expand |-> IF IsSome(view_options) THEN Unwrap(view_options).expand ELSE None,
     sort |-> IF IsSome(view_options) THEN Unwrap(view_options).sort ELSE None]

IssuesOneRequestFromView(call_) ==
    /\ Len(call_.input.reqs) = 1
    /\ call_.input.reqs[1] =
          ExpectedFromView(call_.input.filter, call_.input.view_options)

\* C23: get_first_list_item always issues exactly one list request, built
\* with page=1, per_page=1, skip_total=true and the given filter, carrying
\* the fields, expand and sort of the view options when they are supplied
\* and leaving the three unset when they are absent; this for the services
\* of both types.
C23_OneListRequestFromView ==
    (call.pc = "returned"
     /\ last.op \in {"get_first_list_item", "Collection::get_first_list_item"})
        => IssuesOneRequestFromView(last)

\* get_first_list_item of a Collection has been called without view options.
C23_FailingInput ==
    /\ Returned("Collection::get_first_list_item")
    /\ IsNone(last.input.view_options)
    /\ last.input.reqs = <<>>
    /\ last.ret.kind = "panic"

\* View options that set all three parameters have been given to a
\* Collection and the request carries none of them.
C23_FailingInputDropped ==
    /\ Returned("Collection::get_first_list_item")
    /\ IsSome(last.input.view_options)
    /\ IsSome(Unwrap(last.input.view_options).fields)
    /\ Len(last.input.reqs) = 1
    /\ IsNone(last.input.reqs[1].fields)

\* The services of type RecordService, over the from_view of common.rs, do
\* what the claim says.
C23_RecordServiceFromView ==
    Returned("get_first_list_item") => IssuesOneRequestFromView(last)

-----------------------------------------------------------------------------
(* The record of Auth State and its id *)

\* C28: after any sequence of auth_with_password and update calls, whenever
\* the record and the record_id of Auth State are both set, the id carried
\* by the record is record_id.
C28_RecordIdOfRecord ==
    (IsSome(auth_store.record) /\ IsSome(auth_store.record_id))
        => Unwrap(auth_store.record).id = Unwrap(auth_store.record_id)

\* A second authentication, as another user, has come back with a body
\* that decodes as the minimal shape and not as the full one, and the record
\* of the first user is still stored under the id of the second.
C28_FailingInput ==
    /\ Returned("auth_with_password")
    /\ last.ret.kind = "http"
    /\ GotJson(last)
    /\ MinimalOnly(Got(last))
    /\ IsSome(auth_store.record)
    /\ Unwrap(auth_store.record_id) = Got(last).json.record.id
    /\ Unwrap(auth_store.record).id # Unwrap(auth_store.record_id)

-----------------------------------------------------------------------------
(* A refused authentication *)

\* The body is {message, status} and nothing else.
ErrorBodyOnly(l) ==
    /\ GotJson(l)
    /\ DOMAIN Got(l).json = {"message", "status"}

\* C29: an auth_with_password call that fails because of a transport
\* failure or because the backend answers with an error body
\* {message, status} leaves every field of Auth State as it was before the
\* call, and returns the transport error or the HTTP error of the body.
C29_FailedAuthKeepsState ==
    [][ (Returns("auth_with_password")
         /\ (last'.input.resp.transport \/ ErrorBodyOnly(last')))
           => /\ auth_store' = auth_store
              /\ last'.input.resp.transport => last'.ret = ErrReqwest
              /\ ErrorBodyOnly(last')
                    => last'.ret = ErrHttp(Got(last').json.status,
                                           Got(last').json.message) ]_vars

\* The backend has refused an authentication with {message, status: 99}
\* while a session was stored.
C29_FailingInput ==
    /\ Returned("auth_with_password")
    /\ ErrorBodyOnly(last)
    /\ Got(last).json.status = 99
    /\ last.ret.kind = "panic"
    /\ FullyPopulated(auth_store)

\* What the code keeps: the state is never touched by such a call, and the
\* error is returned when the status of the body is one StatusCode accepts.
C29_FailedAuthKeepsStateValidStatus ==
    [][ (Returns("auth_with_password")
         /\ (last'.input.resp.transport \/ ErrorBodyOnly(last')))
           => /\ auth_store' = auth_store
              /\ poisoned' = poisoned
              /\ last'.input.resp.transport => last'.ret = ErrReqwest
              /\ (ErrorBodyOnly(last') /\ ValidStatus(Got(last').json.status))
                    => last'.ret = ErrHttp(Got(last').json.status,
                                           Got(last').json.message) ]_vars

-----------------------------------------------------------------------------
(* get_full_list, request by request *)

\* The page index of a get_full_list call is followed up to MaxPages; an
\* honest collection of MaxN records is listed in fewer pages.
MaxPages == MaxN + 2

\* The backends of SpecFull: those of SpecList, and the ones that report
\* per_page = 0 and serve empty pages whatever they hold.
BackendsFull == [n : 0..MaxN, cap : 0..MaxCap]

InitFull ==
    /\ InitClient
    /\ services = AllServices
    /\ backend \in BackendsFull

\* The list requests of the call that are sent and not answered yet.
InFlight(c) == IF "in_flight" \in DOMAIN c THEN c.in_flight ELSE <<>>

\* A get_full_list that asks for the next page without awaiting the answer
\* to the one before.
may_send_pipelined(c) == c.pc \in {"loop", "awaiting"}

\* get_full_list awaits each get_list: it sends a request at the top of its
\* loop only.
may_send(c) == c.pc = "loop"

\* The top of the loop: the request for page page_index leaves.
GetFullListSend ==
    /\ may_send(call)
    /\ call.page_index <= MaxPages
    /\ LET options == paginated_and_skip(call.page_index, FullListPerPage) IN
       call' = [pc |-> "awaiting", in_flight |-> Append(InFlight(call), options)] @@ call
    /\ UNCHANGED <<heap, services, now, backend, last, tasks>>

\* The answer to the request comes back, and the loop tests it.
GetFullListReceive ==
    /\ call.pc = "awaiting"
    /\ LET options == Head(call.in_flight) IN
       \E resp \in ListResponses(backend, options) :
          LET m == heap[call.self.auth_store]
              pages == get_list(m.data, m.poisoned, resp)
              turn == full_list_turn(call, options, pages)
          IN
          IF turn.pc = "loop"
          THEN /\ call' = [in_flight |-> Tail(call.in_flight)] @@ turn
               /\ UNCHANGED <<heap, services, now, backend, last, tasks>>
          ELSE Finish(call.self, "get_full_list",
                      [reqs |-> turn.reqs, pages |-> turn.pages, resp |-> resp],
                      Out(pages.store, pages.poisoned, turn.ret))

NextFull ==
    \/ Return
    \/ GetFullListStart
    \/ GetFullListSend
    \/ GetFullListReceive

\* The call is polled to its end and the backend answers every request.
SpecFull ==
    /\ InitFull
    /\ [][NextFull]_vars
    /\ WF_vars(GetFullListSend)
    /\ WF_vars(GetFullListReceive)

\* A get_full_list call is running.
InFullList == call.pc \in {"loop", "awaiting"}

\* This step sends a list request of the running call.
SendsRequest ==
    /\ InFullList
    /\ call'.pc = "awaiting"
    /\ Len(InFlight(call')) > Len(InFlight(call))

\* C26: within one get_full_list call the list requests are issued one
\* after another for the pages 1, 2, 3, ...: the request for page k+1 is
\* sent only after the answer for page k has been received and found to
\* hold as many items as its per_page, and no two requests of the call are
\* in flight at once.
C26_OnePageAtATime ==
    [][ /\ Len(InFlight(call')) <= 1
        /\ SendsRequest
              => LET k == Len(call.reqs) + 1 IN
                 /\ InFlight(call) = <<>>
                 /\ Len(call.pages) = k - 1
                 /\ InFlight(call') = <<paginated_and_skip(k, FullListPerPage)>>
                 /\ k > 1 => Len(call.pages[k - 1]) = PageSize ]_vars

\* The request for the third page is in flight, the first two pages having
\* been received in full.
C26_Witness ==
    /\ call.pc = "awaiting"
    /\ Len(call.in_flight) = 1
    /\ call.in_flight[1].page = Some(3)
    /\ Len(call.pages) = 2
    /\ PageSize > 0
    /\ Len(call.items) = 2 * PageSize

\* The answer is a page of an honest collection that holds fewer items than
\* its per_page.
ShortPage(resp) ==
    /\ ~resp.transport
    /\ IsSome(from_str("ListResponse", resp.body))
    /\ Len(resp.body.json.items) # resp.body.json.perPage

C27_WitnessEndless ==
    /\ call.pc = "loop"
    /\ backend.cap = 0
    /\ call.page_index > MaxPages
    /\ call.items = <<>>

-----------------------------------------------------------------------------
(* Concurrent tasks on one client.  A task runs one call at a time; a call  *)
(* is followed from one await or lock of its code to the next.  A task is   *)
(* suspended at the awaits of the request only, and a call may be dropped   *)
(* there; the MutexGuard a task holds keeps every other task out of Auth    *)
(* State until it is dropped.                                               *)

Tasks == {"t1", "t2"}

TaskIdle == [pc |-> "idle", guard |-> FALSE]

\* The call of the task has ended with ret.
TaskDone(f, ret) ==
    [pc |-> "done", guard |-> FALSE, op |-> f.op, self |-> f.self, ret |-> ret]

\* The services the tasks call through, both bound to the users collection.
TaskServiceNames == {"users", "pbc_users"}

TaskServices ==
    { collection(<<Mutex(AuthStoreDefault)>>, ClientArc, n).service : n \in TaskServiceNames }

\* The record of the second user as the backend holds it.
UserRecord(email) ==
    [id |-> "u2", collectionId |-> "pbc_users", collectionName |-> "users",
     email |-> email]

\* What the auth endpoint answers to the tasks: a failure, the refusal of
\* the credentials, the session of the user with the record the backend
\* holds, the session of the superuser.
UserSession(email) ==
    [token |-> TokenOf("pbc_users", MaxExp), record |-> UserRecord(email)]

SuperuserSession ==
    [token |-> TokenOf(SuperusersCollectionId, MaxExp),
     record |-> [id |-> "u1", collectionId |-> SuperusersCollectionId,
                 collectionName |-> SuperusersCollectionName, email |-> "b@x"]]

Sessions == { UserSession(email) : email \in Emails } \cup {SuperuserSession}

Refusal == Answer(JsonBody([message |-> "Failed.", status |-> 400]))

TaskAuthResponses(b) ==
    {TransportFailure, Refusal}
    \cup { Answer(JsonBody(x)) : x \in {UserSession(b.email), SuperuserSession} }

InitTasks ==
    /\ heap = <<Mutex(AuthStoreDefault)>>
    /\ services = TaskServices
    /\ now = 0
    /\ backend = [n |-> 1, cap |-> 1, email |-> "a@x"]
    /\ call = CallIdle
    /\ last = Constructed
    /\ tasks = [t \in Tasks |-> TaskIdle]

\* No task holds the MutexGuard: Mutex::lock() returns at once.
LockFree == \A t \in Tasks : ~tasks[t].guard

\* The awaits of a call with one more between the setters of
\* auth_with_password.
SuspensionPointsInRegion == {"in_flight", "answered", "token_set"}

\* The positions at which a call is suspended, and may be dropped: the
\* awaits of send() and text(), before and after the backend has answered.
SuspensionPoints == {"in_flight", "answered"}

\* get_auth_headers whose guard outlives it, into the request.
keep_store_guard(f) == f

\* The end of get_auth_headers: `store`, the guard, goes out of scope.
release_store_guard(f) == [f EXCEPT !.guard = FALSE]

StoreData(data) == [heap EXCEPT ![ClientArc].data = data]

\* auth_with_password up to the await of line 209: the request leaves.
AuthSend(t) ==
    /\ tasks[t].pc = "idle"
    /\ \E s \in services :
          tasks' = [tasks EXCEPT ![t] =
                       [pc |-> "in_flight", guard |-> FALSE,
                        op |-> "auth_with_password", self |-> s]]
    /\ UNCHANGED <<heap, services, now, backend, call, last>>

\* The body has come; lines 210-212: the two decodings and the test of tmp.
AuthReceive(t) ==
    /\ tasks[t].pc = "in_flight"
    /\ tasks[t].op = "auth_with_password"
    /\ \E resp \in TaskAuthResponses(backend) :
          LET f == tasks[t]
              tmp == handle_response_body(
                         from_str("AuthResponseMinimal", resp.body), resp.body)
              result == handle_response_body(
                         from_str("AuthResponseFull", resp.body), resp.body)
          IN
          tasks' = [tasks EXCEPT ![t] =
                       IF resp.transport THEN TaskDone(f, ErrReqwest)
                       ELSE IF tmp.kind = "panic" \/ result.kind = "panic"
                            THEN TaskDone(f, Panic)
                       ELSE IF tmp.kind # "ok" THEN TaskDone(f, result)
                       ELSE [pc |-> "decoded", tmp |-> tmp, result |-> result] @@ f]
    /\ UNCHANGED <<heap, services, now, backend, call, last>>

\* Line 214: lock().unwrap().
AuthLock(t) ==
    /\ tasks[t].pc = "decoded"
    /\ LockFree
    /\ tasks' = [tasks EXCEPT ![t] =
                    IF poisoned THEN TaskDone(@, Panic)
                    ELSE [@ EXCEPT !.pc = "locked", !.guard = TRUE]]
    /\ UNCHANGED <<heap, services, now, backend, call, last>>

\* Line 215
AuthSetToken(t) ==
    /\ tasks[t].pc = "locked"
    /\ tasks[t].op = "auth_with_password"
    /\ heap' = StoreData(set_token(auth_store, tasks[t].tmp.val.token))
    /\ tasks' = [tasks EXCEPT ![t].pc = "token_set"]
    /\ UNCHANGED <<services, now, backend, call, last>>

\* Line 216
AuthSetCollection(t) ==
    /\ tasks[t].pc = "token_set"
    /\ LET record == tasks[t].tmp.val.record IN
       heap' = StoreData(set_collection(auth_store, record.collection_name,
                                        record.collection_id))
    /\ tasks' = [tasks EXCEPT ![t].pc = "collection_set"]
    /\ UNCHANGED <<services, now, backend, call, last>>

\* Line 217
AuthSetRecordId(t) ==
    /\ tasks[t].pc = "collection_set"
    /\ heap' = StoreData(set_record_id(auth_store, tasks[t].tmp.val.record.id))
    /\ tasks' = [tasks EXCEPT ![t].pc = "record_id_set"]
    /\ UNCHANGED <<services, now, backend, call, last>>

\* Lines 218-222: the record when the full decode has it; the guard is
\* dropped and the call returns.
AuthSetRecord(t) ==
    /\ tasks[t].pc = "record_id_set"
    /\ LET result == tasks[t].result IN
       /\ heap' = IF result.kind = "ok"
                  THEN StoreData(set_record(auth_store, result.val.record))
                  ELSE heap
       /\ tasks' = [tasks EXCEPT ![t] = TaskDone(@, result)]
    /\ UNCHANGED <<services, now, backend, call, last>>

\* update and get_one up to line 60: get_auth_headers locks Auth State.
\* lock() on a poisoned Mutex is an Err and line 61 unwraps it.
RequestHeaders(t) ==
    /\ tasks[t].pc = "idle"
    /\ LockFree
    /\ \E s \in services, op \in {"update", "get_one"}, email \in Emails :
          LET f == [pc |-> "headers", guard |-> TRUE, op |-> op, self |-> s,
                    payload |-> IF op = "update" THEN Some(email) ELSE None]
          IN tasks' = [tasks EXCEPT ![t] =
                          IF poisoned THEN TaskDone(f, Panic) ELSE f]
    /\ UNCHANGED <<heap, services, now, backend, call, last>>

\* Lines 61-67, then the request leaves: the token is read under the guard,
\* which is dropped when get_auth_headers returns; a token no header can
\* hold panics with the guard alive.
RequestSend(t) ==
    /\ tasks[t].pc = "headers"
    /\ LET headers == get_auth_headers(auth_store, poisoned) IN
       IF headers.kind = "panic"
       THEN /\ heap' = [heap EXCEPT ![ClientArc].poisoned = TRUE]
            /\ tasks' = [tasks EXCEPT ![t] = TaskDone(@, Panic)]
       ELSE /\ heap' = heap
            /\ tasks' = [tasks EXCEPT ![t] =
                            release_store_guard(
                                [pc |-> "in_flight", headers |-> headers.val] @@ @)]
    /\ UNCHANGED <<services, now, backend, call, last>>

\* The backend handles the request of the task: it applies the update to
\* the record it holds and answers with the record, or it fails.
BackendAnswer(t) ==
    /\ tasks[t].pc = "in_flight"
    /\ tasks[t].op \in {"update", "get_one"}
    /\ \/ /\ backend' = IF IsSome(tasks[t].payload)
                        THEN [backend EXCEPT !.email = Unwrap(tasks[t].payload)]
                        ELSE backend
          /\ tasks' = [tasks EXCEPT ![t] =
                          [pc |-> "answered",
                           resp |-> Answer(JsonBody(UserRecord(backend'.email)))] @@ @]
       \/ /\ backend' = backend
          /\ \E resp \in {TransportFailure, Refusal} :
                tasks' = [tasks EXCEPT ![t] = [pc |-> "answered", resp |-> resp] @@ @]
    /\ UNCHANGED <<heap, services, now, call, last>>

\* get_one, lines 89-91: the body has come and is decoded.
GetOneReceive(t) ==
    /\ tasks[t].pc = "answered"
    /\ tasks[t].op = "get_one"
    /\ LET resp == tasks[t].resp IN
       tasks' = [tasks EXCEPT ![t] =
                    TaskDone(@, IF resp.transport THEN ErrReqwest
                                ELSE handle_response_body(
                                         from_str("full", resp.body), resp.body))]
    /\ UNCHANGED <<heap, services, now, backend, call, last>>

\* update, lines 177-181: the body has come, or the request has failed and
\* `?` returns the error; then lock().unwrap().
UpdateLock(t) ==
    /\ tasks[t].pc = "answered"
    /\ tasks[t].op = "update"
    /\ IF tasks[t].resp.transport
       THEN tasks' = [tasks EXCEPT ![t] = TaskDone(@, ErrReqwest)]
       ELSE /\ LockFree
            /\ tasks' = [tasks EXCEPT ![t] =
                            IF poisoned THEN TaskDone(@, Panic)
                            ELSE [@ EXCEPT !.pc = "locked", !.guard = TRUE]]
    /\ UNCHANGED <<heap, services, now, backend, call, last>>

\* update, lines 182-199, all under the guard: the self-update propagation,
\* then the decoding of the body as E; a panic of either poisons the Mutex.
UpdateStore(t) ==
    /\ tasks[t].pc = "locked"
    /\ tasks[t].op = "update"
    /\ LET f == tasks[t]
           sync == UpdateSync(auth_store, f.self.collection_id_or_name, f.resp.body)
           ret == handle_response_body(from_str("full", f.resp.body), f.resp.body)
       IN
       /\ heap' = [heap EXCEPT ![ClientArc] =
                      [data |-> sync.store,
                       poisoned |-> sync.panic \/ ret.kind = "panic"]]
       /\ tasks' = [tasks EXCEPT ![t] =
                       [resp |-> f.resp, payload |-> f.payload, headers |-> f.headers]
                       @@ TaskDone(f, IF sync.panic THEN Panic ELSE ret)]
    /\ UNCHANGED <<services, now, backend, call, last>>

\* The future of the call is dropped at an await, with what it holds.
Cancel(t) ==
    /\ tasks[t].pc \in SuspensionPoints
    /\ tasks' = [tasks EXCEPT ![t] = TaskIdle]
    /\ UNCHANGED <<heap, services, now, backend, call, last>>

\* The task is done with the value it got.
TaskReturn(t) ==
    /\ tasks[t].pc = "done"
    /\ tasks' = [tasks EXCEPT ![t] = TaskIdle]
    /\ UNCHANGED <<heap, services, now, backend, call, last>>

NextTasks ==
    \E t \in Tasks :
        \/ AuthSend(t)
        \/ AuthReceive(t)
        \/ AuthLock(t)
        \/ AuthSetToken(t)
        \/ AuthSetCollection(t)
        \/ AuthSetRecordId(t)
        \/ AuthSetRecord(t)
        \/ RequestHeaders(t)
        \/ RequestSend(t)
        \/ BackendAnswer(t)
        \/ GetOneReceive(t)
        \/ UpdateLock(t)
        \/ UpdateStore(t)
        \/ Cancel(t)
        \/ TaskReturn(t)

SpecTasks == InitTasks /\ [][NextTasks]_vars

-----------------------------------------------------------------------------
(* Properties of the concurrent tasks *)

\* The four fields of Auth State that an authentication writes, and what a
\* session x of the backend makes them.
SessionFields(store) ==
    <<store.token, store.collection_id, store.collection_name, store.record_id>>

FieldsOf(x) ==
    <<Some(x.token), Some(x.record.collectionId), Some(x.record.collectionName),
      Some(x.record.id)>>

\* What a decoded AuthResponse<DefaultAuthResponseRecord> makes them.
FieldsOfDecoded(response) ==
    <<Some(response.token), Some(response.record.collection_id),
      Some(response.record.collection_name), Some(response.record.id)>>

\* C24: whatever the interleaving of the auth_with_password calls of the
\* tasks, and wherever a call is dropped, the token, collection_id,
\* collection_name and record_id that can be read from Auth State (no task
\* holding its lock) are those of one authentication response, never a mix
\* of two and never a part of one; the call that writes them last leaves
\* its own four.
C24_OneResponseAtATime ==
    /\ [](LockFree => SessionFields(auth_store) \in
                        {SessionFields(AuthStoreDefault)}
                        \cup { FieldsOf(x) : x \in Sessions })
    /\ [][ \A t \in Tasks :
             (tasks[t].pc = "record_id_set" /\ tasks'[t].pc = "done")
                => SessionFields(auth_store') = FieldsOfDecoded(tasks[t].tmp.val) ]_vars

\* A task is between two setters of its authentication, over the session
\* another call has stored, while the other task waits for the lock with
\* the response of a third session.
C24_Witness ==
    /\ tasks["t1"].pc = "token_set"
    /\ tasks["t2"].pc = "decoded"
    /\ tasks["t1"].tmp.val.token # tasks["t2"].tmp.val.token
    /\ IsSome(auth_store.record_id)
    /\ auth_store.collection_id # Some(tasks["t1"].tmp.val.record.collection_id)

\* The positions of a call at which its request is on the network.
OnTheNetwork == {"in_flight", "answered"}

\* C25: no operation holds the lock of Auth State while its request is in
\* flight: the guard is held to read the token before the request leaves
\* and, in update and auth_with_password only, after the body has been
\* received; so the task that holds the lock is never one whose request is
\* pending.
C25_NoLockAcrossRequest ==
    \A t \in Tasks :
        /\ tasks[t].pc \in OnTheNetwork => ~tasks[t].guard
        /\ tasks[t].guard
              => \/ tasks[t].pc = "headers"
                 \/ /\ tasks[t].op = "update"
                    /\ tasks[t].pc = "locked"
                    /\ ~tasks[t].resp.transport
                 \/ /\ tasks[t].op = "auth_with_password"
                    /\ tasks[t].pc \in {"locked", "token_set", "collection_set",
                                        "record_id_set"}
                    /\ tasks[t].tmp.kind = "ok"

\* The request of one task is pending while the other task holds the lock
\* of Auth State.
C25_Witness ==
    /\ tasks["t1"].pc = "in_flight"
    /\ tasks["t1"].op = "update"
    /\ tasks["t2"].pc = "locked"
    /\ tasks["t2"].guard

\* Both tasks have returned from a successful update of the record of the
\* user Auth State is authenticated as, each made with the user's token.
BothSelfUpdatesReturned ==
    /\ auth_store.record_id = Some("u2")
    /\ auth_store.collection_id = Some("pbc_users")
    /\ IsSome(auth_store.record)
    /\ \A t \in Tasks :
          /\ tasks[t].pc = "done"
          /\ tasks[t].op = "update"
          /\ tasks[t].ret.kind = "ok"
          /\ tasks[t].headers # EmptyObj

\* C30 (as stated): once two concurrent updates of the authenticated user's
\* record have both returned, the record of Auth State is the record the
\* backend finally holds.
C30_RecordIsBackendRecord ==
    BothSelfUpdatesReturned
        => Unwrap(auth_store.record).email = backend.email

\* The update of task t stores its response in Auth State in this step.
StoresSelfUpdate(t) ==
    /\ tasks[t].pc = "locked"
    /\ tasks[t].op = "update"
    /\ tasks'[t].pc = "done"
    /\ tasks'[t].ret.kind = "ok"
    /\ is_some(auth_store)
    /\ BoundToAuthCollection(tasks[t].self.collection_id_or_name, auth_store)
    /\ auth_store.record_id = Some(tasks[t].resp.body.json.id)

\* C30 (amended): each update of the authenticated user's record writes its
\* own response over the record of Auth State when its response is
\* processed, so once both have returned the record is the response of one
\* of the two, the one processed last, whichever the backend applied last.
C30_LastStoredWins ==
    /\ [][ \A t \in Tasks :
             StoresSelfUpdate(t)
                => auth_store'.record =
                      from_str("DefaultAuthRecord", tasks[t].resp.body) ]_vars
    /\ [](BothSelfUpdatesReturned
            => \E t \in Tasks :
                  auth_store.record = from_str("DefaultAuthRecord", tasks[t].resp.body))

\* Both updates have returned; the backend applied that of t1 and then that
\* of t2, and the response of t1 was processed last.
C30_Witness ==
    /\ BothSelfUpdatesReturned
    /\ tasks["t1"].payload # tasks["t2"].payload
    /\ backend.email = Unwrap(tasks["t2"].payload)
    /\ Unwrap(auth_store.record).email = Unwrap(tasks["t1"].payload)

====
